---- MODULE Spec2Model ----
(***************************************************************************)
(* Model of md-blog-generator: main (src/main.rs) and BlogGenerator::new / *)
(* BlogGenerator::render (src/blog_gen/blog_generator.rs) with the two     *)
(* templates of src/blog_gen/html_template.rs.                             *)
(*                                                                         *)
(* Strings that the program computes with (file names, urls, titles) are   *)
(* sequences of one-character strings, so that str::replace, format! and   *)
(* the byte-wise ordering of file names are computed as the code computes  *)
(* them.  Results of filesystem and template-engine calls are inputs of    *)
(* the step that makes the call (\E over BOOLEAN); every failed call, and   *)
(* every failed title extraction, is recorded in the history variable      *)
(* faults.                                                                 *)
(***************************************************************************)
EXTENDS Naturals, Sequences, FiniteSets

VARIABLES
    pc,                     \* position of the program
    outcome,                \* "running" | "ok" | "err" | "panic" | "new_err"
    exit_code,              \* process exit status once pc = "exit"
    stderr,                 \* diagnostics printed to standard error
    stdout,                 \* lines printed by println!
    fs_md,                  \* the *.md sources directory: name -> [created, content]
    out_dir,                \* the rendered outputs directory: name -> file
    css_from_source,        \* render: the css text read
    entries,                \* render: the glob iterator, entries still to come
    markdown_files,         \* render: Vec<MarkDownFile> being collected
    markdown_files_sorted,  \* render: the sorted clone
    i,                      \* render: position of the per-document loop
    pages,                  \* render: Vec<Page>
    page_src,               \* history: source file name of each element of pages
    faults                  \* history: the calls that failed and the titles that
                            \* could not be extracted, [kind, file]

vars == <<pc, outcome, exit_code, stderr, stdout, fs_md, out_dir, css_from_source,
          entries, markdown_files, markdown_files_sorted, i, pages, page_src, faults>>

----------------------------------------------------------------------------
(* Bounds of the model *)

MaxFiles == 2

MaxTime == 2

\* the most calls that fail in one run
MaxFaults == 2

----------------------------------------------------------------------------
(* Strings *)

MdExt == <<".", "m", "d">>

HtmlExt == <<".", "h", "t", "m", "l">>

BaseUrl == <<".", "/">>

IndexFileName == <<"i", "n", "d", "e", "x", ".", "h", "t", "m", "l">>

CssText == <<"b", "{", "}">>

Quote == "\""

Backslash == "\\"

\* byte value of a character, for the orderings the code relies on
CharCode(c) ==
    CASE c = Quote -> 34
      [] c = "." -> 46
      [] c = "/" -> 47
      [] c = "H" -> 72
      [] c = Backslash -> 92
      [] c = "a" -> 97
      [] c = "b" -> 98
      [] c = "d" -> 100
      [] c = "e" -> 101
      [] c = "h" -> 104
      [] c = "i" -> 105
      [] c = "l" -> 108
      [] c = "m" -> 109
      [] c = "n" -> 110
      [] c = "t" -> 116
      [] c = "x" -> 120
      [] OTHER -> 127

RECURSIVE StrLess(_, _)
\* lexicographic byte order of two strings (Ord for OsStr / str)
StrLess(a, b) ==
    IF b = <<>> THEN FALSE
    ELSE IF a = <<>> THEN TRUE
    ELSE IF CharCode(a[1]) < CharCode(b[1]) THEN TRUE
    ELSE IF CharCode(a[1]) > CharCode(b[1]) THEN FALSE
    ELSE StrLess(Tail(a), Tail(b))

StartsWith(s, p) == Len(s) >= Len(p) /\ SubSeq(s, 1, Len(p)) = p

EndsWith(s, p) == Len(s) >= Len(p) /\ SubSeq(s, Len(s) - Len(p) + 1, Len(s)) = p

RECURSIVE StrReplace(_, _, _)
\* str::replace: every non-overlapping match of from, left to right, becomes to
StrReplace(s, from, to) ==
    IF Len(s) < Len(from) THEN s
    ELSE IF StartsWith(s, from)
         THEN to \o StrReplace(SubSeq(s, Len(from) + 1, Len(s)), from, to)
         ELSE <<s[1]>> \o StrReplace(Tail(s), from, to)

RECURSIVE EscapeDebug(_)
\* the escaping of format!("{:?}", &str) for the characters of the model
EscapeDebug(s) ==
    IF s = <<>> THEN <<>>
    ELSE (IF s[1] \in {Quote, Backslash} THEN <<Backslash, s[1]>> ELSE <<s[1]>>)
         \o EscapeDebug(Tail(s))

\* format!("{:?}", title_text[0]): the text, escaped, between double quotes
FormatDebug(s) == <<Quote>> \o EscapeDebug(s) \o <<Quote>>

----------------------------------------------------------------------------
(* The inputs: file names, creation times, Markdown contents *)

FileNames ==
    { <<"a">> \o MdExt,
      <<"a">> \o MdExt \o MdExt,
      <<"a">> \o HtmlExt \o MdExt,
      <<"n", ".", "t", "x", "t">> }

Times == 1..MaxTime

Newline == "\n"

\* The texts of the Markdown files: "# Hi\n\na\n", "## a\n" and "#\n".
\* They are made of ATX headings and one-line paragraphs without inline
\* markup, and no line starts with a space; so is every prefix of them.
Contents ==
    { <<"#", " ", "H", "i", Newline, Newline, "a", Newline>>,
      <<"#", "#", " ", "a", Newline>>,
      <<"#", Newline>> }

\* what read_to_string leaves in the String: the whole text, or after an
\* error the n characters read before it
ReadInto(text, ok, n) == IF ok THEN text ELSE SubSeq(text, 1, n)

EmptyFn == [x \in {} |-> x]

Put(f, k, v) == [x \in DOMAIN f \cup {k} |-> IF x = k THEN v ELSE f[x]]

Range(s) == {s[k] : k \in DOMAIN s}

Fault(kind, file) == [kind |-> kind, file |-> file]

NoFile == <<>>

----------------------------------------------------------------------------
(* Library calls of render, computed as the libraries compute them *)

GlobMatches(name) == EndsWith(name, MdExt)

RECURSIVE SortedNames(_)
\* the names of a set in ascending byte order
SortedNames(S) ==
    IF S = {} THEN <<>>
    ELSE LET m == CHOOSE x \in S : \A y \in S \ {x} : StrLess(x, y)
         IN  <<m>> \o SortedNames(S \ {m})

\* glob("<markdown_sources_dir>/*.md"): the matching paths in alphabetical
\* order, or one Err entry when the directory cannot be listed
Glob(dir, listable) ==
    IF listable
    THEN LET names == SortedNames({n \in dir : GlobMatches(n)})
         IN  [k \in DOMAIN names |-> [ok |-> TRUE, path |-> names[k]]]
    ELSE << [ok |-> FALSE, path |-> NoFile] >>

\* an unstable variant: x goes before the elements of the same created_time
InsertAtBeforeEqual(x, s) ==
    Cardinality({k \in DOMAIN s : s[k].created_time < x.created_time})

\* position at which a stable sort by created_time puts x into the sorted s
InsertAt(x, s) == Cardinality({k \in DOMAIN s : s[k].created_time <= x.created_time})

InsertStable(x, s) ==
    LET n == InsertAt(x, s)
    IN  SubSeq(s, 1, n) \o <<x>> \o SubSeq(s, n + 1, Len(s))

RECURSIVE SortByCreatedTime(_)
\* Vec::sort_by(|a, b| a.created_time.cmp(&b.created_time)): a stable sort
SortByCreatedTime(files) ==
    IF files = <<>> THEN <<>>
    ELSE InsertStable(files[Len(files)],
                      SortByCreatedTime(SubSeq(files, 1, Len(files) - 1)))

RECURSIVE SplitLines(_, _)
\* the lines of a text; cur is the line being read
SplitLines(s, cur) ==
    IF s = <<>> THEN (IF cur = <<>> THEN <<>> ELSE <<cur>>)
    ELSE IF s[1] = Newline THEN <<cur>> \o SplitLines(Tail(s), <<>>)
    ELSE SplitLines(Tail(s), Append(cur, s[1]))

RECURSIVE TrimLeft(_)
TrimLeft(s) == IF s # <<>> /\ s[1] = " " THEN TrimLeft(Tail(s)) ELSE s

RECURSIVE TrimRight(_)
TrimRight(s) ==
    IF s # <<>> /\ s[Len(s)] = " " THEN TrimRight(SubSeq(s, 1, Len(s) - 1)) ELSE s

RECURSIVE HashCount(_)
\* the number of # a line starts with
HashCount(line) ==
    IF line # <<>> /\ line[1] = "#" THEN 1 + HashCount(Tail(line)) ELSE 0

\* an ATX heading: one to six #, then a space or the end of the line
IsHeading(line) ==
    LET h == HashCount(line)
    IN  h \in 1..6 /\ (Len(line) = h \/ line[h + 1] = " ")

IsBlank(line) == TrimLeft(line) = <<>>

Heading(level, text) == [kind |-> "heading", level |-> level, text |-> text]

Paragraph(text) == [kind |-> "paragraph", level |-> 0, text |-> text]

\* the paragraph collected so far, closed
Flush(para) == IF para = <<>> THEN <<>> ELSE <<Paragraph(TrimRight(para))>>

RECURSIVE ParseBlocks(_, _)
\* the blocks of the lines; para is the text of the open paragraph
ParseBlocks(lines, para) ==
    IF lines = <<>> THEN Flush(para)
    ELSE LET line == Head(lines) IN
         IF IsBlank(line) THEN Flush(para) \o ParseBlocks(Tail(lines), <<>>)
         ELSE IF IsHeading(line)
         THEN Flush(para)
              \o <<Heading(HashCount(line),
                           TrimRight(TrimLeft(SubSeq(line, HashCount(line) + 1, Len(line)))))>>
              \o ParseBlocks(Tail(lines), <<>>)
         ELSE ParseBlocks(Tail(lines),
                          IF para = <<>> THEN line ELSE para \o <<Newline>> \o line)

\* Parser::new_ext(&md_content, options): the blocks of the text
MarkdownParser(md_content) == ParseBlocks(SplitLines(md_content, <<>>), <<>>)

\* html::push_html: one element per block, <hN> or <p>, around its text
PushHtml(blocks) ==
    [k \in DOMAIN blocks |->
        [tag   |-> IF blocks[k].kind = "paragraph" THEN "p" ELSE "h",
         level |-> blocks[k].level,
         text  |-> blocks[k].text]]

\* the texts a read can leave in md_content
ReadableTexts == UNION {{SubSeq(t, 1, n) : n \in 0..Len(t)} : t \in Contents}

\* lines 209-211 on each of these texts: body_content
BodyContent == [t \in ReadableTexts |-> PushHtml(MarkdownParser(t))]

\* fragment.select(&Selector::parse("h1")).next(): <<>> is None
FirstH1(body) ==
    LET hits == {k \in DOMAIN body : body[k].tag = "h" /\ body[k].level = 1}
    IN  IF hits = {} THEN <<>>
        ELSE << body[CHOOSE k \in hits : \A j \in hits : k <= j] >>

\* h1.text().collect(): the text nodes of the element; an element without
\* text has none
TextNodes(el) == IF el.text = <<>> THEN <<>> ELSE << el.text >>

\* the file name of an output page
OutFileName(file_name) == StrReplace(file_name, MdExt, HtmlExt)

\* the title kept in a Page
PageTitle(title_from_md) == StrReplace(title_from_md, <<Quote>>, <<>>)

MakePage(title_from_md, out_file_name) ==
    [title |-> PageTitle(title_from_md), url |-> BaseUrl \o out_file_name]

\* tera.render("html"): the css, then the body, in the page skeleton
HtmlTemplate(css, body) == [kind |-> "page", css |-> css, body |-> body]

\* tera.render("index"): one row-item link per page, in the order of pages
IndexTemplate(ps) ==
    [kind |-> "index", links |-> [k \in DOMAIN ps |-> [href |-> ps[k].url, text |-> ps[k].title]]]

\* a file on disk: what was rendered, whether all of it was written, and
\* (history) the source document it was written for
WrittenFile(rendered, src) == [complete |-> TRUE, data |-> rendered, src |-> src]

\* a file that File::create made and write_all did not fill
TruncatedFile(src) == [complete |-> FALSE, data |-> [kind |-> "nothing"], src |-> src]

----------------------------------------------------------------------------
(* How main ends *)

\* BlogGenerator::new failed: main prints the error with eprintln! and
\* returns Ok(()), so the status is 0
EndNewErr(err) ==
    /\ pc' = "exit"
    /\ outcome' = "new_err"
    /\ exit_code' = 0
    /\ stderr' = Append(stderr, err)

\* render returned Err: main returns it through `?`, the runtime prints it
\* and the status is 1
EndRenderErr(err) ==
    /\ pc' = "exit"
    /\ outcome' = "err"
    /\ exit_code' = 1
    /\ stderr' = Append(stderr, err)

\* an unwrap of Err / None or an index out of range: the thread panics, the
\* panic message goes to standard error and the status is 101
EndPanic(msg) ==
    /\ pc' = "exit"
    /\ outcome' = "panic"
    /\ exit_code' = 101
    /\ stderr' = Append(stderr, msg)

\* render returned Ok(()): main returns Ok(()), status 0
EndOk ==
    /\ pc' = "exit"
    /\ outcome' = "ok"
    /\ exit_code' = 0
    /\ stderr' = stderr

Running == UNCHANGED <<outcome, exit_code, stderr>>

----------------------------------------------------------------------------
(* Initial state: the contents of the markdown sources directory *)

\* a file that the glob does not match is never looked at: one such file
OtherFile == [created |-> 1, content |-> <<"#", Newline>>]

Dirs == {S \in SUBSET FileNames : Cardinality(S) <= MaxFiles}

Init ==
    /\ pc = "main"
    /\ outcome = "running"
    /\ exit_code = 0
    /\ stderr = <<>>
    /\ stdout = <<>>
    /\ \E S \in Dirs :
          fs_md \in {f \in [S -> [created : Times, content : Contents]] :
                        \A n \in S : ~GlobMatches(n) => f[n] = OtherFile}
    /\ out_dir = EmptyFn
    /\ css_from_source = <<>>
    /\ entries = <<>>
    /\ markdown_files = <<>>
    /\ markdown_files_sorted = <<>>
    /\ i = 1
    /\ pages = <<>>
    /\ page_src = <<>>
    /\ faults = {}

RenderLocals == <<css_from_source, entries, markdown_files, markdown_files_sorted,
                  i, pages, page_src>>

----------------------------------------------------------------------------
(* main and BlogGenerator::new *)

\* the entries of faults that are no failed call: a title that could not
\* be taken from the text read (lines 216 and 218)
TitleFaultKinds == {"no_h1", "empty_h1"}

\* the environment of a run: at most MaxFaults of its calls fail. A step
\* whose calls all succeed is never excluded
Bounded == Cardinality({f \in faults' : f.kind \notin TitleFaultKinds}) <= MaxFaults

\* main up to the call of render: BlogGenerator::new checks fs::metadata of
\* the css file, the sources directory and the outputs directory, in this order
MainNew(cssOk, mdOk, outOk) ==
    /\ pc = "main"
    /\ IF ~cssOk
       THEN /\ EndNewErr("InvalidCSSPath")
            /\ faults' = faults \cup {Fault("css_missing", NoFile)}
       ELSE IF ~mdOk
       THEN /\ EndNewErr("InvalidMarkDownPath")
            /\ faults' = faults \cup {Fault("md_dir_missing", NoFile)}
       ELSE IF ~outOk
       THEN /\ EndNewErr("InvalidRenderedOutputPath")
            /\ faults' = faults \cup {Fault("out_dir_missing", NoFile)}
       ELSE /\ pc' = "load_css"
            /\ Running
            /\ faults' = faults
    /\ UNCHANGED <<stdout, fs_md, out_dir>>
    /\ UNCHANGED RenderLocals
    /\ Bounded

----------------------------------------------------------------------------
(* BlogGenerator::render *)

\* lines 109-134: open the css file and read it; the result of
\* read_to_string is dropped (let _ =) and what was read before the error
\* stays in css_from_source. The glob is then started: a pattern that glob
\* rejects (a sources directory named with [ or ***) makes expect panic
RenderLoadCss(openOk, readOk, patternOk, listable) ==
    /\ pc = "load_css"
    /\ IF ~openOk
       THEN /\ EndRenderErr("InvalidCSSPath")
            /\ faults' = faults \cup {Fault("css_open", NoFile)}
            /\ UNCHANGED <<css_from_source, entries>>
       ELSE \E n \in (IF readOk THEN {0} ELSE 0..Len(CssText)) :
            /\ css_from_source' = ReadInto(CssText, readOk, n)
            /\ IF ~patternOk
               THEN /\ EndPanic("failed to read any markdown source files")
                    /\ entries' = entries
                    /\ faults' = faults
                          \cup (IF readOk THEN {} ELSE {Fault("css_read", NoFile)})
                          \cup {Fault("glob_pattern", NoFile)}
               ELSE /\ pc' = "collect"
                    /\ Running
                    /\ entries' = Glob(DOMAIN fs_md, listable)
                    /\ faults' = faults
                          \cup (IF readOk THEN {} ELSE {Fault("css_read", NoFile)})
                          \cup (IF listable THEN {} ELSE {Fault("md_dir_list", NoFile)})
    /\ UNCHANGED <<stdout, fs_md, out_dir, markdown_files, markdown_files_sorted,
                   i, pages, page_src>>
    /\ Bounded

\* lines 134-171: one iteration of the loop over the glob entries
RenderCollect(openOk, metaOk, createdOk) ==
    /\ pc = "collect"
    /\ entries # <<>>
    /\ LET entry == Head(entries) IN
       IF ~entry.ok
       THEN /\ stdout' = Append(stdout, [msg |-> "glob error", arg |-> NoFile])
            /\ entries' = Tail(entries)
            /\ UNCHANGED <<pc, markdown_files, faults>>
            /\ Running
       ELSE IF ~openOk
       THEN /\ EndPanic("unwrap on MarkDownFileError")
            /\ faults' = faults \cup {Fault("md_open", entry.path)}
            /\ UNCHANGED <<stdout, entries, markdown_files>>
       ELSE IF ~metaOk
       THEN /\ EndPanic("unwrap on MarkDownMetadataError")
            /\ faults' = faults \cup {Fault("md_metadata", entry.path)}
            /\ UNCHANGED <<stdout, entries, markdown_files>>
       ELSE IF ~createdOk
       THEN /\ EndPanic("unwrap on created() error")
            /\ faults' = faults \cup {Fault("md_created", entry.path)}
            /\ UNCHANGED <<stdout, entries, markdown_files>>
       ELSE /\ markdown_files' = Append(markdown_files,
                    [file_name     |-> entry.path,
                     created_time  |-> fs_md[entry.path].created,
                     title_from_md |-> <<>>])
            /\ entries' = Tail(entries)
            /\ UNCHANGED <<pc, stdout, faults>>
            /\ Running
    /\ UNCHANGED <<fs_md, out_dir, css_from_source, markdown_files_sorted,
                   i, pages, page_src>>
    /\ Bounded

\* lines 173-182: the glob is exhausted; sort the clone by creation time
RenderSort ==
    /\ pc = "collect"
    /\ entries = <<>>
    /\ markdown_files_sorted' = SortByCreatedTime(markdown_files)
    /\ i' = 1
    /\ pc' = "documents"
    /\ Running
    /\ UNCHANGED <<stdout, fs_md, out_dir, css_from_source, entries, markdown_files,
                   pages, page_src, faults>>

\* lines 184-262: one iteration of the per-document loop, for
\* markdown_files_sorted[i]
RenderDocument(openOk, readOk, renderOk, createOk, writeOk) ==
    /\ pc = "documents"
    /\ i <= Len(markdown_files_sorted)
    /\ \E n \in (IF openOk /\ ~readOk
                THEN 0..Len(fs_md[markdown_files_sorted[i].file_name].content)
                ELSE {0}) :
       LET mdf           == markdown_files_sorted[i]
           name          == mdf.file_name
           \* lines 185-200: after a failed open nothing is read; the error of a
           \* failed read is dropped (let _ =) and md_content keeps the n
           \* characters read before it
           md_content    == IF openOk THEN ReadInto(fs_md[name].content, readOk, n)
                            ELSE <<>>
           readFaults    == (IF openOk THEN {} ELSE {Fault("md_content_open", name)})
                            \cup (IF openOk /\ ~readOk
                                  THEN {Fault("md_content_read", name)} ELSE {})
           \* lines 209-211
           body_content  == BodyContent[md_content]
           \* lines 214-216
           h1            == FirstH1(body_content)
           \* lines 228, 232-235
           rendered      == HtmlTemplate(css_from_source, body_content)
           out_file_name == OutFileName(name)
       IN
       IF h1 = <<>>
       THEN \* line 216: next() is None, unwrap panics
            /\ EndPanic("unwrap on None")
            /\ faults' = faults \cup readFaults \cup {Fault("no_h1", name)}
            /\ UNCHANGED <<stdout, out_dir, markdown_files_sorted, i, pages, page_src>>
       ELSE IF TextNodes(h1[1]) = <<>>
       THEN \* line 218: title_text[0] of an empty Vec
            /\ EndPanic("index out of bounds")
            /\ faults' = faults \cup readFaults \cup {Fault("empty_h1", name)}
            /\ UNCHANGED <<stdout, out_dir, markdown_files_sorted, i, pages, page_src>>
       ELSE
       LET title_text == FormatDebug(TextNodes(h1[1])[1])
           titled     == [markdown_files_sorted EXCEPT ![i].title_from_md = <<title_text>>]
           said       == Append(stdout, [msg |-> "Entry title", arg |-> FormatDebug(title_text)])
       IN
       IF ~renderOk
       THEN \* lines 256-261
            /\ EndRenderErr("TemplateUseError html")
            /\ faults' = faults \cup readFaults \cup {Fault("template_html", name)}
            /\ markdown_files_sorted' = titled
            /\ stdout' = said
            /\ UNCHANGED <<out_dir, i, pages, page_src>>
       ELSE IF ~createOk
       THEN \* lines 237-241: unwrap of the Err of File::create
            /\ EndPanic("unwrap on FileWriteError")
            /\ faults' = faults \cup readFaults \cup {Fault("page_create", name)}
            /\ markdown_files_sorted' = titled
            /\ stdout' = said
            /\ UNCHANGED <<out_dir, i, pages, page_src>>
       ELSE IF ~writeOk
       THEN \* lines 251-254: the file exists, write_all failed; continue
            /\ Running
            /\ pc' = pc
            /\ faults' = faults \cup readFaults \cup {Fault("page_write", name)}
            /\ markdown_files_sorted' = titled
            /\ out_dir' = Put(out_dir, out_file_name, TruncatedFile(name))
            /\ stdout' = Append(said, [msg |-> "error writing rendered file",
                                       arg |-> out_file_name])
            /\ i' = i + 1
            /\ UNCHANGED <<pages, page_src>>
       ELSE \* lines 243-250
            /\ Running
            /\ pc' = pc
            /\ faults' = faults \cup readFaults
            /\ markdown_files_sorted' = titled
            /\ out_dir' = Put(out_dir, out_file_name, WrittenFile(rendered, name))
            /\ stdout' = Append(said, [msg |-> "wrote", arg |-> out_file_name])
            /\ pages' = Append(pages, MakePage(title_text, out_file_name))
            /\ page_src' = Append(page_src, name)
            /\ i' = i + 1
    /\ UNCHANGED <<fs_md, css_from_source, entries, markdown_files>>
    /\ Bounded

\* lines 264-290: the loop is over; render and write index.html
RenderIndex(renderOk, createOk, writeOk) ==
    /\ pc = "documents"
    /\ i > Len(markdown_files_sorted)
    /\ IF ~renderOk
       THEN \* lines 283-288
            /\ EndRenderErr("TemplateUseError index")
            /\ faults' = faults \cup {Fault("template_index", NoFile)}
            /\ UNCHANGED out_dir
       ELSE IF ~createOk
       THEN \* lines 276-280: unwrap of the Err of File::create
            /\ EndPanic("unwrap on FileWriteError")
            /\ faults' = faults \cup {Fault("index_create", NoFile)}
            /\ UNCHANGED out_dir
       ELSE IF ~writeOk
       THEN \* lines 280-282: the result of write_all is dropped (let _ =)
            /\ EndOk
            /\ faults' = faults \cup {Fault("index_write", NoFile)}
            /\ out_dir' = Put(out_dir, IndexFileName, TruncatedFile(NoFile))
       ELSE /\ EndOk
            /\ faults' = faults
            /\ out_dir' = Put(out_dir, IndexFileName,
                              WrittenFile(IndexTemplate(pages), NoFile))
    /\ UNCHANGED <<stdout, fs_md>>
    /\ UNCHANGED RenderLocals
    /\ Bounded

----------------------------------------------------------------------------

Next ==
    \/ \E cssOk, mdOk, outOk \in BOOLEAN : MainNew(cssOk, mdOk, outOk)
    \/ \E openOk, readOk, patternOk, listable \in BOOLEAN :
          RenderLoadCss(openOk, readOk, patternOk, listable)
    \/ \E openOk, metaOk, createdOk \in BOOLEAN : RenderCollect(openOk, metaOk, createdOk)
    \/ RenderSort
    \/ \E openOk, readOk, renderOk, createOk, writeOk \in BOOLEAN :
          RenderDocument(openOk, readOk, renderOk, createOk, writeOk)
    \/ \E renderOk, createOk, writeOk \in BOOLEAN : RenderIndex(renderOk, createOk, writeOk)

Spec == Init /\ [][Next]_vars

----------------------------------------------------------------------------
(* Vocabulary of the properties *)

Exited == pc = "exit"

FaultKinds == {f.kind : f \in faults}

\* some call failed, and every call that failed is of one of the kinds K
OnlyFaults(K) == faults # {} /\ FaultKinds \subseteq K

FaultedFiles(K) == {f.file : f \in {g \in faults : g.kind \in K}}

IndexWritten == IndexFileName \in DOMAIN out_dir /\ out_dir[IndexFileName].complete

\* the links of index.html, in the order of the file
IndexLinks == IF IndexWritten THEN out_dir[IndexFileName].data.links ELSE <<>>

PageFiles == DOMAIN out_dir \ {IndexFileName}

\* the documents whose loop iteration is over
Processed == {markdown_files_sorted[k].file_name : k \in 1..(i - 1)}

\* creation-time order of two source documents, ties by file name
CreatedBefore(a, b) ==
    \/ fs_md[a].created < fs_md[b].created
    \/ fs_md[a].created = fs_md[b].created /\ StrLess(a, b)

\* the base name with its trailing Markdown extension replaced by .html
TrailingExtensionReplaced(name) == SubSeq(name, 1, Len(name) - Len(MdExt)) \o HtmlExt

----------------------------------------------------------------------------
(* C1: whenever a fatal condition occurs (missing css file, missing source  *)
(* directory, missing output directory, template failure, index write       *)
(* failure) the process exits non-zero with a diagnostic on standard error, *)
(* and it exits zero otherwise.                                             *)
FatalKinds ==
    {"css_missing", "css_open", "md_dir_missing", "out_dir_missing",
     "template_html", "template_index", "index_create", "index_write"}

C1_ExitStatusReflectsFatal ==
    Exited =>
        IF FaultKinds \cap FatalKinds # {}
        THEN exit_code # 0 /\ stderr # <<>>
        ELSE exit_code = 0

(* C2: at every point of the per-document loop and once the index is        *)
(* written, the page links are in ascending creation-time order of their    *)
(* source documents, two documents of the same creation time in file-name   *)
(* order, and index.html lists the links in exactly that order.             *)
C2_PagesInCreationOrder ==
    /\ Len(page_src) = Len(pages)
    /\ \A a, b \in DOMAIN pages :
          a < b => CreatedBefore(page_src[a], page_src[b])
    /\ IndexWritten =>
          IndexLinks = [k \in DOMAIN pages |->
                           [href |-> BaseUrl \o OutFileName(page_src[k]),
                            text |-> pages[k].title]]

\* C2 witness: a finished run whose index lists two documents of the same
\* creation time
C2_Witness ==
    /\ Exited /\ outcome = "ok" /\ IndexWritten
    /\ Len(IndexLinks) >= 2
    /\ fs_md[page_src[1]].created = fs_md[page_src[2]].created

(* C3: when the output file of one document cannot be created or written,  *)
(* the run does not abort: the document gets no page link, every later      *)
(* document is processed and the index is written.                          *)
C3_PageWriteFailureNotFatal ==
    OnlyFaults({"page_create", "page_write"}) =>
        /\ outcome \in {"running", "ok"}
        /\ FaultedFiles({"page_create", "page_write"}) \cap Range(page_src) = {}
        /\ Exited => i > Len(markdown_files_sorted) /\ IndexWritten

(* C4: when opening a matched file, reading its metadata or its creation    *)
(* time fails during discovery, only that file leaves the run: the run does *)
(* not abort, the other files are collected, rendered and indexed.          *)
C4_DiscoveryFailureNotFatal ==
    OnlyFaults({"md_open", "md_metadata", "md_created"}) =>
        /\ outcome \in {"running", "ok"}
        /\ Exited =>
              /\ IndexWritten
              /\ Range(page_src) =
                    {n \in DOMAIN fs_md : GlobMatches(n)}
                        \ FaultedFiles({"md_open", "md_metadata", "md_created"})

(* C5: a document whose HTML has no h1 heading (also one whose content      *)
(* could not be read) is a recoverable error of that document: it gets no   *)
(* page link or a fallback title, the other documents are processed and the *)
(* run does not fail.                                                       *)
C5_MissingTitleNotFatal ==
    OnlyFaults({"no_h1", "empty_h1", "md_content_open", "md_content_read"}) =>
        /\ outcome \in {"running", "ok"}
        /\ Exited => i > Len(markdown_files_sorted) /\ IndexWritten

(* C6: when rendering the index template, creating index.html or writing    *)
(* its bytes fails, render never reports success.                           *)
C6_IndexFailureFatal ==
    OnlyFaults({"template_index", "index_create", "index_write"}) => outcome # "ok"

(* C7: when the css file cannot be opened or read, the run aborts with an   *)
(* error before any page or index.html is written, and no page holds a      *)
(* style asset that failed to load.                                         *)
C7_CssFailureFatal ==
    /\ OnlyFaults({"css_open", "css_read"})
          => Exited /\ outcome = "err" /\ out_dir = EmptyFn
    /\ \A n \in PageFiles : out_dir[n].complete => out_dir[n].data.css = CssText

(* C8: after a successful run no output file exists, complete or truncated, *)
(* for a document that has no link in the index.                            *)
C8_SkippedAbsentFromOutput ==
    Exited /\ outcome = "ok" /\ FaultKinds \subseteq {"page_write"} =>
        \A n \in PageFiles :
            /\ out_dir[n].complete
            /\ out_dir[n].src \in Range(page_src)

(* C9: a page link exists only for a document whose page was written, and   *)
(* after a successful run the links of index.html are exactly the urls      *)
(* base_url + output file name of the documents whose write succeeded.      *)
C9_IndexListsExactlyWritten ==
    LET written == Processed \ FaultedFiles({"page_write"})
    IN  /\ Range(page_src) = written
        /\ \A k \in DOMAIN pages : pages[k].url = BaseUrl \o OutFileName(page_src[k])
        /\ Exited /\ outcome = "ok" /\ FaultKinds \subseteq {"page_write", "index_write"} =>
              {l.href : l \in Range(IndexLinks)}
                  = {BaseUrl \o OutFileName(d) : d \in written}

(* C10: two distinct source documents of a run have distinct output file    *)
(* names, each the base name with only its trailing Markdown extension      *)
(* replaced by .html; no page is overwritten by another page of the run and *)
(* no two links share a url.                                                *)
C10_DistinctOutputNames ==
    LET names == {markdown_files_sorted[k].file_name : k \in DOMAIN markdown_files_sorted}
    IN  faults = {} =>
        /\ \A a \in names : OutFileName(a) = TrailingExtensionReplaced(a)
        /\ \A a, b \in names : a # b => OutFileName(a) # OutFileName(b)
        /\ \A k \in DOMAIN pages : out_dir[OutFileName(page_src[k])].src = page_src[k]
        /\ \A j, k \in DOMAIN pages : j # k => pages[j].url # pages[k].url

====
